---- MODULE Spec2Model ----
(***************************************************************************)
(* Model of archan's rule engine (src/src/archan/criterion.py): the        *)
(* mediation matrix generator, the compliance comparator and the numeric   *)
(* and structural criteria, applied to a design structure matrix (DSM).    *)
(*                                                                         *)
(* Python strings are sequences of one-character strings, Python lists are *)
(* sequences; list index k of the code is index k + 1 here, and indices    *)
(* that the code prints in messages are converted back to 0-based.         *)
(***************************************************************************)
EXTENDS Integers, Sequences, FiniteSets, TLC

VARIABLES
    dsm,        \* the design structure matrix
    criteria,   \* the Criterion objects of CRITERIA
    pc,         \* "ready" until a first call has been made
    op,         \* the function or criterion called last
    args,       \* its arguments beside the matrix
    result,     \* what it returned or raised
    runs        \* the results of the complete runs of CRITERIA made so far

vars == <<dsm, criteria, pc, op, args, result, runs>>

(***************************************************************************)
(* Bounds of the model.                                                    *)
(***************************************************************************)
MaxN == 2

MaxFactor == 2

MaxRuns == 2

(***************************************************************************)
(* DesignStructureMatrix (archan/dsm.py, not part of the sources at hand): *)
(* the six category constants read by the criteria as dsm.framework, ...,  *)
(* and the fields categories, entities, dependency_matrix and size.        *)
(***************************************************************************)
framework == "framework"

core_lib == "core_lib"

app_lib == "app_lib"

app_module == "app_module"

broker == "broker"

data == "data"

Categories == {framework, core_lib, app_lib, app_module, broker, data}

DesignStructureMatrix(categories, entities, dependency_matrix) ==
    [categories |-> categories,
     entities |-> entities,
     dependency_matrix |-> dependency_matrix,
     size |-> Len(entities)]

(***************************************************************************)
(* Strings.                                                                *)
(***************************************************************************)
Dot == "."

\* s.startswith(p)
StartsWith(s, p) ==
    /\ Len(p) <= Len(s)
    /\ \A k \in 1..Len(p) : s[k] = p[k]

\* e.split('.')[0]: the part of e before its first dot, e itself without one
SplitFirst(e) ==
    LET dots == {k \in 1..Len(e) : e[k] = Dot}
    IN  IF dots = {} THEN e
        ELSE SubSeq(e, 1, (CHOOSE k \in dots : \A l \in dots : k <= l) - 1)

\* packages = [e.split('.')[0] for e in ent]
Packages(ent) == [k \in 1..Len(ent) |-> SplitFirst(ent[k])]

(***************************************************************************)
(* Outcomes of a call: a returned value or a raised exception.             *)
(***************************************************************************)
Return(v) == [kind |-> "return", value |-> v]

Raise(exc, detail) == [kind |-> "raise", exc |-> exc, detail |-> detail]

\* Python's True, False and None: the first component of what a check returns
True == "True"

False == "False"

None == "None"

Bool(b) == IF b THEN True ELSE False

\* the cells (i, j) of a rows x cols matrix in the order of the nested loops
\* for i in range(0, rows): for j in range(0, cols)
CellAt(k, cols) == <<((k - 1) \div cols) + 1, ((k - 1) % cols) + 1>>

LoopCells(rows, cols) == [k \in 1..(rows * cols) |-> CellAt(k, cols)]

(***************************************************************************)
(* _generate_mediation_matrix                                              *)
(***************************************************************************)
\* ent[i].startswith(packages[j] + '.')
InPackage_NoDot(ent, packages, i, j) == StartsWith(ent[i], packages[j])

InPackage(ent, packages, i, j) == StartsWith(ent[i], packages[j] \o <<Dot>>)

\* if cat[i] == dsm.framework
FrameworkRow(cat, i, j) == IF cat[j] = framework THEN -1 ELSE 0

\* elif cat[i] == dsm.core_lib
CoreLibRow_Required(cat, ent, packages, i, j) ==
    IF cat[j] = framework THEN 1
    ELSE IF \/ cat[j] = core_lib
            \/ InPackage(ent, packages, i, j)
            \/ i = j
         THEN -1 ELSE 0

CoreLibRow(cat, ent, packages, i, j) ==
    IF \/ cat[j] \in {framework, core_lib}
       \/ InPackage(ent, packages, i, j)
       \/ i = j
    THEN -1 ELSE 0

\* elif cat[i] == dsm.app_lib
AppLibRow(cat, ent, packages, i, j) ==
    IF \/ cat[j] \in {framework, core_lib, app_lib}
       \/ InPackage(ent, packages, i, j)
       \/ i = j
    THEN -1 ELSE 0

\* elif cat[i] == dsm.app_module
AppModuleRow(cat, ent, packages, i, j) ==
    IF \/ cat[j] \in {framework, core_lib, app_lib, broker, data}
       \/ InPackage(ent, packages, i, j)
       \/ i = j
    THEN -1 ELSE 0

\* elif cat[i] == dsm.broker
BrokerRow(cat, ent, packages, i, j) ==
    IF \/ cat[j] \in {app_module, core_lib, framework}
       \/ InPackage(ent, packages, i, j)
       \/ i = j
    THEN -1 ELSE 0

\* elif cat[i] == dsm.data
DataRow_NoSelf(cat, i, j) == IF cat[j] = framework THEN -1 ELSE 0

DataRow(cat, i, j) == IF cat[j] = framework \/ i = j THEN -1 ELSE 0

\* the value the body of the nested loops gives cell (i, j); NotGenerated
\* (the value of the commented-out assignment) stands for the else branch,
\* which raises
NotGenerated == -2

MediationValue(cat, ent, packages, i, j) ==
    IF cat[i] = framework THEN FrameworkRow(cat, i, j)
    ELSE IF cat[i] = core_lib THEN CoreLibRow(cat, ent, packages, i, j)
    ELSE IF cat[i] = app_lib THEN AppLibRow(cat, ent, packages, i, j)
    ELSE IF cat[i] = app_module THEN AppModuleRow(cat, ent, packages, i, j)
    ELSE IF cat[i] = broker THEN BrokerRow(cat, ent, packages, i, j)
    ELSE IF cat[i] = data THEN DataRow(cat, i, j)
    ELSE NotGenerated

\* the loops stop at the first cell, in loop order, that reaches the else
\* branch; the message names its 0-based indices
GenerateOutcome_Silent(size, value) == Return(value)

GenerateOutcome(size, value) ==
    LET cells == LoopCells(size, size)
        bad == {k \in 1..Len(cells) :
                  value[cells[k][1]][cells[k][2]] = NotGenerated}
    IN  IF bad = {}
        THEN Return(value)
        ELSE LET first == CHOOSE k \in bad : \A l \in bad : k <= l
             IN  Raise("ArchanError",
                       <<"Mediation matrix value NOT generated for",
                         cells[first][1] - 1, cells[first][2] - 1>>)

_generate_mediation_matrix(d) ==
    LET cat == d.categories
        ent == d.entities
        size == d.size
        packages == Packages(ent)
        value == [i \in 1..size |-> [j \in 1..size |->
                    MediationValue(cat, ent, packages, i, j)]]
    IN  GenerateOutcome(size, value)

(***************************************************************************)
(* _matrices_compliance and check_complete_mediation.  A message is the    *)
(* sequence of its lines ('\n'.join), the empty message the empty one.     *)
(***************************************************************************)
\* the condition under which the loop body records a discrepancy
Discrepancy_NoTolerance(expected, observed) ==
    \/ expected <= 0 /\ observed > 0
    \/ expected = 1 /\ observed < 1

Discrepancy(expected, observed) ==
    \/ expected = 0 /\ observed > 0
    \/ expected = 1 /\ observed < 1

UntoleratedLine(d, med, i, j) ==
    <<"Untolerated dependency at", i - 1, j - 1, d.entities[i], d.entities[j],
      d.dependency_matrix[i][j], med[i][j]>>

RECURSIVE ComplianceLines(_, _, _, _)
ComplianceLines(d, med, cells, k) ==
    IF k > Len(cells) THEN <<>>
    ELSE LET i == cells[k][1]
             j == cells[k][2]
             rest == ComplianceLines(d, med, cells, k + 1)
         IN  IF Discrepancy(med[i][j], d.dependency_matrix[i][j])
             THEN <<UntoleratedLine(d, med, i, j)>> \o rest
             ELSE rest

DimensionsDiffer(rows_dep, cols_dep, rows_med, cols_med) ==
    rows_dep # rows_med \/ cols_dep # cols_med

\* what a mismatch of the dimensions leads to
DimensionMismatch_Reported ==
    Return(<<False,
             <<<<"Matrices are NOT compliant (number of rows/columns not equal)">>>>>>)

DimensionMismatch ==
    Raise("ArchanError",
          <<"Matrices are NOT compliant (number of rows/columns not equal)">>)

_matrices_compliance(d, complete_mediation_matrix) ==
    LET matrix == d.dependency_matrix
        med == complete_mediation_matrix
    IN  IF Len(matrix) = 0 \/ Len(med) = 0
        THEN Raise("IndexError", <<"list index out of range">>)
        ELSE IF DimensionsDiffer(Len(matrix), Len(matrix[1]),
                                 Len(med), Len(med[1]))
        THEN DimensionMismatch
        ELSE LET message == ComplianceLines(
                                d, med, LoopCells(Len(matrix), Len(matrix[1])), 1)
             \* discrepancy_found is set where, and only where, a line is added
             IN  Return(<<Bool(message = <<>>), message>>)

check_complete_mediation(d) ==
    LET med_matrix == _generate_mediation_matrix(d)
    IN  IF med_matrix.kind = "raise" THEN med_matrix
        ELSE _matrices_compliance(d, med_matrix.value)

(***************************************************************************)
(* check_economy_of_mechanism                                              *)
(***************************************************************************)
DefaultSimplicityFactor == 2

\* the categories whose rows and columns the count leaves out
EconomyExcluded == {framework, core_lib}

DependencyNumber(d) ==
    Cardinality({c \in (1..d.size) \X (1..d.size) :
        /\ d.categories[c[1]] \notin EconomyExcluded
        /\ d.categories[c[2]] \notin EconomyExcluded
        /\ d.dependency_matrix[c[1]][c[2]] > 0})

EconomyHolds(dependency_number, size, simplicity_factor) ==
    dependency_number < size * simplicity_factor

EconomyLine(dependency_number, size, simplicity_factor) ==
    <<"Number of dependencies", dependency_number,
      "> number of rows", size,
      "* simplicity factor", simplicity_factor, size * simplicity_factor>>

check_economy_of_mechanism_Verbose(d, simplicity_factor) ==
    LET dependency_number == DependencyNumber(d)
        message == <<EconomyLine(dependency_number, d.size, simplicity_factor)>>
    IN  Return(<<Bool(EconomyHolds(dependency_number, d.size, simplicity_factor)),
                 message>>)

check_economy_of_mechanism(d, simplicity_factor) ==
    LET dependency_number == DependencyNumber(d)
    IN  IF EconomyHolds(dependency_number, d.size, simplicity_factor)
        THEN Return(<<True, <<>>>>)
        ELSE Return(<<False,
                      <<EconomyLine(dependency_number, d.size,
                                    simplicity_factor)>>>>)

(***************************************************************************)
(* check_least_common_mechanism                                            *)
(***************************************************************************)
DefaultIndependenceFactor == 5

\* dependent_module_number after the first pair of loops
InDegrees(d) ==
    [j \in 1..d.size |->
        Cardinality({i \in 1..d.size :
            /\ d.categories[i] # framework
            /\ d.categories[j] # framework
            /\ d.dependency_matrix[i][j] > 0})]

\* ... and after the loop that sets the entries of brokers and app_libs to 0
ExemptHubs(d, numbers) ==
    [j \in 1..d.size |->
        IF d.categories[j] = broker \/ d.categories[j] = app_lib
        THEN 0 ELSE numbers[j]]

\* max(list)
Max(seq) == CHOOSE x \in {seq[k] : k \in 1..Len(seq)} :
                \A k \in 1..Len(seq) : seq[k] <= x

\* list.index(x): the first position of x
IndexOf_Last(seq, x) == CHOOSE k \in 1..Len(seq) :
                            seq[k] = x /\ \A l \in (k + 1)..Len(seq) : seq[l] # x

IndexOf(seq, x) == CHOOSE k \in 1..Len(seq) :
                       seq[k] = x /\ \A l \in 1..(k - 1) : seq[l] # x

\* maximum <= size / independence_factor, for a positive factor.  An integer
\* is at most the quotient exactly when its product with the divisor is at
\* most the dividend, under true and under floor division alike.
WithinQuotient_Strict(maximum, size, independence_factor) ==
    maximum * independence_factor < size

WithinQuotient(maximum, size, independence_factor) ==
    maximum * independence_factor <= size

check_least_common_mechanism(d, independence_factor) ==
    LET dependent_module_number == ExemptHubs(d, InDegrees(d))
        maximum == Max(dependent_module_number)
    IN  IF WithinQuotient(maximum, d.size, independence_factor)
        THEN Return(<<True, <<>>>>)
        ELSE Return(<<False,
                      <<<<"Dependencies to",
                          d.entities[IndexOf(dependent_module_number, maximum)],
                          maximum, "> matrix size", d.size,
                          "/ independence factor", independence_factor>>>>>>)

(***************************************************************************)
(* check_layered_architecture                                              *)
(***************************************************************************)
\* the pairs (i, j) of for i in range(0, size - 1): for j in range(i + 1, size)
ForwardPairs_Both(size) ==
    LET all == LoopCells(size, size)
    IN  SelectSeq(all, LAMBDA c : c[1] # c[2])

ForwardPairs(size) ==
    LET all == LoopCells(size, size)
    IN  SelectSeq(all, LAMBDA c : c[1] < c[2])

BreaksLayers(d, i, j) ==
    /\ d.categories[i] # broker
    /\ d.categories[j] # broker
    /\ SplitFirst(d.entities[i]) # SplitFirst(d.entities[j])
    /\ d.dependency_matrix[i][j] > 0

RECURSIVE LayerLines(_, _, _)
LayerLines(d, pairs, k) ==
    IF k > Len(pairs) THEN <<>>
    ELSE LET i == pairs[k][1]
             j == pairs[k][2]
             rest == LayerLines(d, pairs, k + 1)
         IN  IF BreaksLayers(d, i, j)
             THEN <<<<"Dependency from", d.entities[i], "to", d.entities[j],
                      "breaks the layered architecture.">>>> \o rest
             ELSE rest

check_layered_architecture(d) ==
    LET messages == LayerLines(d, ForwardPairs(d.size), 1)
    \* layered_architecture is cleared where, and only where, a line is added
    IN  Return(<<Bool(messages = <<>>), messages>>)

(***************************************************************************)
(* The checks that are not implemented.                                    *)
(***************************************************************************)
check_separation_of_privileges(d) == Return(<<None, <<>>>>)

check_least_privileges(d) == Return(<<None, <<>>>>)

check_open_design(d) == Return(<<None, <<>>>>)

check_code_clean(d) == Return(<<None, <<>>>>)

(***************************************************************************)
(* Criterion.  Keyword arguments are functions from keyword to value.      *)
(***************************************************************************)
FAILED == 0

PASSED == 1

NOT_IMPLEMENTED == -1

IGNORED == -2

NoKwargs == [k \in {} |-> 0]

\* Criterion.__init__
Criterion(codename, check, kwargs) ==
    [codename |-> codename, check |-> check, kwargs |-> kwargs]

\* kwargs.update(self.kwargs)
Update(kwargs, other) ==
    [k \in DOMAIN kwargs \cup DOMAIN other |->
        IF k \in DOMAIN other THEN other[k] ELSE kwargs[k]]

UnexpectedKeyword == Raise("TypeError", <<"unexpected keyword argument">>)

\* self.check(dsm, **kwargs): binds the keywords to the parameters of the
\* check function, a missing one taking its default
CallCheck(check, d, kwargs) ==
    CASE check = "check_complete_mediation" ->
           IF DOMAIN kwargs = {} THEN check_complete_mediation(d)
           ELSE UnexpectedKeyword
      [] check = "check_economy_of_mechanism" ->
           IF DOMAIN kwargs \subseteq {"simplicity_factor"}
           THEN check_economy_of_mechanism(d,
                    IF "simplicity_factor" \in DOMAIN kwargs
                    THEN kwargs["simplicity_factor"]
                    ELSE DefaultSimplicityFactor)
           ELSE UnexpectedKeyword
      [] check = "check_separation_of_privileges" ->
           IF DOMAIN kwargs = {} THEN check_separation_of_privileges(d)
           ELSE UnexpectedKeyword
      [] check = "check_least_privileges" ->
           IF DOMAIN kwargs = {} THEN check_least_privileges(d)
           ELSE UnexpectedKeyword
      [] check = "check_least_common_mechanism" ->
           IF DOMAIN kwargs \subseteq {"independence_factor"}
           THEN check_least_common_mechanism(d,
                    IF "independence_factor" \in DOMAIN kwargs
                    THEN kwargs["independence_factor"]
                    ELSE DefaultIndependenceFactor)
           ELSE UnexpectedKeyword
      [] check = "check_layered_architecture" ->
           IF DOMAIN kwargs = {} THEN check_layered_architecture(d)
           ELSE UnexpectedKeyword
      [] check = "check_open_design" ->
           IF DOMAIN kwargs = {} THEN check_open_design(d)
           ELSE UnexpectedKeyword
      [] check = "check_code_clean" ->
           IF DOMAIN kwargs = {} THEN check_code_clean(d)
           ELSE UnexpectedKeyword

\* what __call__ makes of the pair a check returned
ResultOf_Truthy(outcome) ==
    IF outcome.kind = "raise" THEN outcome
    ELSE IF outcome.value[1] = True
         THEN Return(<<PASSED, outcome.value[2]>>)
         ELSE Return(<<FAILED, outcome.value[2]>>)

ResultOf(outcome) ==
    IF outcome.kind = "raise" THEN outcome
    ELSE LET success == outcome.value[1]
             message == outcome.value[2]
         IN  IF success = True THEN Return(<<PASSED, message>>)
             ELSE IF success = False THEN Return(<<FAILED, message>>)
             ELSE Return(<<NOT_IMPLEMENTED, message>>)

\* the Criterion object after __call__(dsm, **kwargs): kwargs.update changes
\* the dictionary of the call, self.kwargs and the other attributes stay
SelfAfterCall_Bound(self, kwargs) ==
    [self EXCEPT !.kwargs = Update(self.kwargs, kwargs)]

SelfAfterCall(self, kwargs) == self

\* Criterion.__call__(dsm, **kwargs); every registered criterion has a check
Criterion__call__(self, d, kwargs) ==
    ResultOf(CallCheck(self.check, d, Update(kwargs, self.kwargs)))

COMPLETE_MEDIATION ==
    Criterion("COMPLETE_MEDIATION", "check_complete_mediation", NoKwargs)

ECONOMY_OF_MECHANISM ==
    Criterion("ECONOMY_OF_MECHANISM", "check_economy_of_mechanism", NoKwargs)

SEPARATION_OF_PRIVILEGES ==
    Criterion("SEPARATION_OF_PRIVILEGES", "check_separation_of_privileges", NoKwargs)

LEAST_PRIVILEGES ==
    Criterion("LEAST_PRIVILEGES", "check_least_privileges", NoKwargs)

LEAST_COMMON_MECHANISM ==
    Criterion("LEAST_COMMON_MECHANISM", "check_least_common_mechanism", NoKwargs)

LAYERED_ARCHITECTURE ==
    Criterion("LAYERED_ARCHITECTURE", "check_layered_architecture", NoKwargs)

OPEN_DESIGN == Criterion("OPEN_DESIGN", "check_open_design", NoKwargs)

CODE_CLEAN == Criterion("CODE_CLEAN", "check_code_clean", NoKwargs)

CRITERIA ==
    <<COMPLETE_MEDIATION, ECONOMY_OF_MECHANISM, SEPARATION_OF_PRIVILEGES,
      LEAST_PRIVILEGES, LEAST_COMMON_MECHANISM, LAYERED_ARCHITECTURE,
      OPEN_DESIGN, CODE_CLEAN>>

(***************************************************************************)
(* The inputs: design structure matrices of 1..MaxN entities.              *)
(***************************************************************************)
\* "a", "a.x", "a.y", "b.x", "ab"
EntityNames ==
    {<<"a">>, <<"a", ".", "x">>, <<"a", ".", "y">>, <<"b", ".", "x">>,
     <<"a", "b">>}

\* the first n of "a.x", "a", "b.x", "ab", "a.y": the names of a DSM whose
\* names are not varied
NameOrder ==
    <<<<"a", ".", "x">>, <<"a">>, <<"b", ".", "x">>, <<"a", "b">>,
      <<"a", ".", "y">>>>

FirstNames(n) == SubSeq(NameOrder, 1, n)

\* a category that is none of the six
OtherCategory == "plugin"

Weights == {0, 1}

Injective(f) == \A k, l \in DOMAIN f : k # l => f[k] # f[l]

NameLists(n, names) == {ent \in [1..n -> names] : Injective(ent)}

Constant(rows, cols, v) == [i \in 1..rows |-> [j \in 1..cols |-> v]]

Matrices(rows, cols, values) == [1..rows -> [1..cols -> values]]

Ready(d) ==
    /\ dsm = d
    /\ pc = "ready"
    /\ op = "none"
    /\ args = NoKwargs
    /\ result = Return(<<>>)
    /\ criteria = CRITERIA
    /\ runs = <<>>

Done(name, a, r) ==
    /\ pc = "ready"
    /\ pc' = "done"
    /\ op' = name
    /\ args' = a
    /\ result' = r
    /\ UNCHANGED <<dsm, criteria, runs>>

(***************************************************************************)
(* The operations.                                                         *)
(***************************************************************************)
GenerateMediationMatrix ==
    Done("_generate_mediation_matrix", NoKwargs, _generate_mediation_matrix(dsm))

\* _matrices_compliance on the DSM and any (rectangular) mediation matrix
MediationInputs ==
    {Constant(rows, cols, v) :
       rows \in 1..(MaxN + 1), cols \in 1..(MaxN + 1), v \in {-1, 0, 1}}

MatricesCompliance ==
    \E med \in MediationInputs :
        Done("_matrices_compliance", med, _matrices_compliance(dsm, med))

CheckCompleteMediation ==
    Done("check_complete_mediation", NoKwargs, check_complete_mediation(dsm))

Factors == (1..MaxFactor) \cup {DefaultSimplicityFactor, DefaultIndependenceFactor}

CheckEconomyOfMechanism ==
    \E simplicity_factor \in Factors :
        Done("check_economy_of_mechanism", simplicity_factor,
             check_economy_of_mechanism(dsm, simplicity_factor))

CheckLeastCommonMechanism ==
    \E independence_factor \in Factors :
        Done("check_least_common_mechanism", independence_factor,
             check_least_common_mechanism(dsm, independence_factor))

CheckLayeredArchitecture ==
    Done("check_layered_architecture", NoKwargs, check_layered_architecture(dsm))

\* COMPLETE_MEDIATION(dsm)
CallCompleteMediation ==
    Done("COMPLETE_MEDIATION", NoKwargs,
         Criterion__call__(COMPLETE_MEDIATION, dsm, NoKwargs))

(***************************************************************************)
(* Mediation matrix generation: every choice of names and of categories,   *)
(* the six and another one, over an empty and over a full matrix.          *)
(***************************************************************************)
Init ==
    \E n \in 1..MaxN :
      \E ent \in NameLists(n, EntityNames) :
        \E cat \in [1..n -> Categories \cup {OtherCategory}] :
          \E w \in Weights :
            Ready(DesignStructureMatrix(cat, ent, Constant(n, n, w)))

Next ==
    \/ GenerateMediationMatrix
    \/ CallCompleteMediation

Spec == Init /\ [][Next]_vars

(***************************************************************************)
(* Claims about the mediation matrix (specification Spec).                 *)
(***************************************************************************)
N == dsm.size

KnownCategories == \A k \in 1..N : dsm.categories[k] \in Categories

Generated ==
    /\ pc = "done"
    /\ op = "_generate_mediation_matrix"
    /\ KnownCategories

Package(k) == SplitFirst(dsm.entities[k])

\* the categories a row of each category tolerates, as the rules list them
Allowed(c) ==
    CASE c = framework -> {framework}
      [] c = core_lib -> {framework, core_lib}
      [] c = app_lib -> {framework, core_lib, app_lib}
      [] c = app_module -> {framework, core_lib, app_lib, broker, data}
      [] c = broker -> {app_module, core_lib, framework}
      [] c = data -> {framework}

ByCategory(i, j) ==
    IF dsm.categories[j] \in Allowed(dsm.categories[i]) THEN -1 ELSE 0

\* C1: with N >= 1 entities of known categories, whatever their names,
\* _generate_mediation_matrix returns an N x N matrix whose every cell is -1
\* or 0, never 1 or another value.
C1_ValuesTolerantOrForbidden ==
    Generated =>
        /\ result.kind = "return"
        /\ DOMAIN result.value = 1..N
        /\ \A i \in 1..N :
             /\ DOMAIN result.value[i] = 1..N
             /\ \A j \in 1..N : result.value[i][j] \in {-1, 0}

\* a core_lib row with a framework column has been generated, and the matrix
\* holds a tolerated and a forbidden cell
C1_Witness ==
    /\ Generated
    /\ result.kind = "return"
    /\ \E i, j \in 1..N :
         /\ dsm.categories[i] = core_lib
         /\ dsm.categories[j] = framework
         /\ result.value[i][j] = -1
         /\ result.value[j][i] = 0

\* C2: the generated matrix has -1 on its diagonal, whatever the category and
\* the name of the entity.
C2_DiagonalTolerated ==
    Generated =>
        /\ result.kind = "return"
        /\ \A i \in 1..N : result.value[i][i] = -1

\* a matrix with a data entity and an entity of another category
C2_Witness ==
    /\ Generated
    /\ result.kind = "return"
    /\ \E i, j \in 1..N :
         /\ dsm.categories[i] = data
         /\ dsm.categories[j] = app_module
         /\ result.value[i][i] = -1
         /\ result.value[j][j] = -1

C4_SamePackageTolerated ==
    Generated =>
        /\ result.kind = "return"
        /\ \A i, j \in 1..N :
             (/\ i # j
              /\ dsm.categories[i] \in {core_lib, app_lib, app_module, broker}
              /\ Package(i) = Package(j))
             => result.value[i][j] = -1

\* C6: with a category outside the six, generation raises ArchanError and
\* returns no matrix, and the COMPLETE_MEDIATION criterion raises it too
\* instead of returning FAILED, PASSED or NOT_IMPLEMENTED.
C6_UnknownCategoryRaises ==
    (/\ pc = "done"
     /\ op \in {"_generate_mediation_matrix", "COMPLETE_MEDIATION"}
     /\ ~KnownCategories)
    => /\ result.kind = "raise"
       /\ result.exc = "ArchanError"

\* the criterion was called on a matrix whose last entity alone has the
\* other category
C6_Witness ==
    /\ pc = "done"
    /\ op = "COMPLETE_MEDIATION"
    /\ N > 1
    /\ dsm.categories[1] \in Categories
    /\ dsm.categories[N] = OtherCategory
    /\ result.kind = "raise"

(***************************************************************************)
(* Complete mediation: every choice of names and of the six categories     *)
(* over a full matrix, and every matrix over fixed names.                  *)
(***************************************************************************)
InitCompliance ==
    \E n \in 1..MaxN :
      \E cat \in [1..n -> Categories] :
        \/ \E ent \in NameLists(n, EntityNames) :
             Ready(DesignStructureMatrix(cat, ent, Constant(n, n, 1)))
        \/ \E m \in Matrices(n, n, Weights) :
             Ready(DesignStructureMatrix(cat, FirstNames(n), m))

NextCompliance == CheckCompleteMediation

SpecCompliance == InitCompliance /\ [][NextCompliance]_vars

\* the mediation matrix of the DSM (its categories are known)
Mediation == _generate_mediation_matrix(dsm).value

Offending ==
    LET med == Mediation
    IN  {c \in (1..N) \X (1..N) :
           med[c[1]][c[2]] = 0 /\ dsm.dependency_matrix[c[1]][c[2]] > 0}

\* the 0-based cell a line of the message names
LineCell(line) == <<line[2] + 1, line[3] + 1>>

\* C5: check_complete_mediation returns compliant = True exactly when no
\* cell has mediation 0 and an observed value > 0; tolerated cells are never
\* reported and the message has exactly one line per offending cell.
C5_CompliantIffNoForbidden ==
    (pc = "done" /\ op = "check_complete_mediation") =>
        LET offending == Offending
        IN  /\ result.kind = "return"
            /\ (result.value[1] = True) = (offending = {})
            /\ (result.value[1] = False) = (offending # {})
            /\ Len(result.value[2]) = Cardinality(offending)
            /\ {LineCell(result.value[2][k]) : k \in 1..Len(result.value[2])}
                  = offending

\* a matrix with a forbidden and a tolerated dependency: only the forbidden
\* one is reported
C5_Witness ==
    /\ pc = "done"
    /\ op = "check_complete_mediation"
    /\ Len(result.value[2]) = 1
    /\ \E i, j \in 1..N :
         /\ i # j
         /\ Mediation[i][j] = -1
         /\ dsm.dependency_matrix[i][j] > 0
         /\ Mediation[j][i] = 0
         /\ dsm.dependency_matrix[j][i] > 0

(***************************************************************************)
(* The comparator on mediation matrices of any dimensions.                 *)
(***************************************************************************)
InitDimensions ==
    \E n \in 1..MaxN :
      \E m \in Matrices(n, n, Weights) :
        Ready(DesignStructureMatrix([k \in 1..n |-> app_module],
                                    FirstNames(n), m))

NextDimensions == MatricesCompliance

SpecDimensions == InitDimensions /\ [][NextDimensions]_vars

Compared == pc = "done" /\ op = "_matrices_compliance"

SameDimensions ==
    /\ Len(args) = Len(dsm.dependency_matrix)
    /\ Len(args[1]) = Len(dsm.dependency_matrix[1])

\* C7: _matrices_compliance on matrices with a different number of rows or
\* of columns raises ArchanError and returns no pair; with the same
\* dimensions it returns one.
C7_DimensionMismatchRaises ==
    Compared =>
        IF SameDimensions
        THEN result.kind = "return"
        ELSE result.kind = "raise" /\ result.exc = "ArchanError"

\* the rows agree and the columns do not
C7_Witness ==
    /\ Compared
    /\ Len(args) = Len(dsm.dependency_matrix)
    /\ Len(args[1]) # Len(dsm.dependency_matrix[1])
    /\ result.kind = "raise"

(***************************************************************************)
(* Economy of mechanism: every choice of the six categories and every      *)
(* matrix, over fixed names.                                               *)
(***************************************************************************)
InitEconomy ==
    \E n \in 1..MaxN :
      \E cat \in [1..n -> Categories] :
        \E m \in Matrices(n, n, Weights) :
          Ready(DesignStructureMatrix(cat, FirstNames(n), m))

NextEconomy == CheckEconomyOfMechanism

SpecEconomy == InitEconomy /\ [][NextEconomy]_vars

\* the ordered pairs (i, j), i = j included, with neither end a framework
\* and a dependency from i to j
NonFrameworkEdges ==
    {c \in (1..N) \X (1..N) :
        /\ dsm.categories[c[1]] # framework
        /\ dsm.categories[c[2]] # framework
        /\ dsm.dependency_matrix[c[1]][c[2]] > 0}

\* C8: check_economy_of_mechanism returns True exactly when the number of
\* ordered pairs (i, j) with neither entity a framework and observed(i,j) > 0
\* is strictly less than N * simplicity_factor.
C8_EconomyCountsNonFramework ==
    (pc = "done" /\ op = "check_economy_of_mechanism") =>
        /\ result.kind = "return"
        /\ (result.value[1] = True)
              = (Cardinality(NonFrameworkEdges) < N * args)

(***************************************************************************)
(* Least common mechanism: every choice of the six categories and every    *)
(* matrix, over fixed names, and ten app_modules of which the first is     *)
(* depended upon by the next two or three.                                 *)
(***************************************************************************)
TenModules(incoming) ==
    DesignStructureMatrix(
        [k \in 1..10 |-> app_module],
        [k \in 1..10 |-> <<"m", ".">> \o [l \in 1..k |-> "x"]],
        [i \in 1..10 |-> [j \in 1..10 |->
            IF j = 1 /\ i \in 2..(incoming + 1) THEN 1 ELSE 0]])

InitLeastCommon ==
    \/ \E n \in 1..MaxN :
         \E cat \in [1..n -> Categories] :
           \E m \in Matrices(n, n, Weights) :
             Ready(DesignStructureMatrix(cat, FirstNames(n), m))
    \/ \E incoming \in {2, 3} : Ready(TenModules(incoming))

NextLeastCommon == CheckLeastCommonMechanism

SpecLeastCommon == InitLeastCommon /\ [][NextLeastCommon]_vars

\* the entities whose in-degree is held against the threshold
Counted == {j \in 1..N : dsm.categories[j] \notin {framework, broker, app_lib}}

\* the number of entities i, i = j included, that are no framework and
\* depend on j
InDegree(j) ==
    Cardinality({i \in 1..N :
        dsm.categories[i] # framework /\ dsm.dependency_matrix[i][j] > 0})

\* C9: check_least_common_mechanism returns True exactly when every entity
\* that is not framework, broker or app_lib has in-degree * factor <= N, the
\* in-degree counting the non-framework entities that depend on it; so ten
\* modules fail at factor 5 with three dependents of one and pass with two.
C9_LeastCommonIffWithinQuotient ==
    (pc = "done" /\ op = "check_least_common_mechanism") =>
        /\ result.kind = "return"
        /\ (result.value[1] = True)
              = (\A j \in Counted : InDegree(j) * args <= N)
        /\ (result.value[1] = False)
              = (\E j \in Counted : InDegree(j) * args > N)
        /\ (dsm = TenModules(3) /\ args = 5) => result.value[1] = False
        /\ (dsm = TenModules(2) /\ args = 5) => result.value[1] = True

\* an in-degree equal to the quotient passes, beside an exempt hub above it
C9_Witness ==
    /\ pc = "done"
    /\ op = "check_least_common_mechanism"
    /\ result.value[1] = True
    /\ \E j \in Counted : InDegree(j) > 0 /\ InDegree(j) * args = N
    /\ \E j \in 1..N :
         dsm.categories[j] \in {broker, app_lib} /\ InDegree(j) * args > N

(***************************************************************************)
(* Layered architecture: every list of the names "a", "a.x" and "b.x",     *)
(* with every choice of the six categories over a full matrix and every    *)
(* matrix over frameworks, app_modules and brokers.                        *)
(***************************************************************************)
LayerNames == {<<"a">>, <<"a", ".", "x">>, <<"b", ".", "x">>}

InitLayered ==
    \E n \in 1..MaxN :
      \E ent \in NameLists(n, LayerNames) :
        \/ \E cat \in [1..n -> Categories] :
             Ready(DesignStructureMatrix(cat, ent, Constant(n, n, 1)))
        \/ \E cat \in [1..n -> {framework, app_module, broker}] :
             \E m \in Matrices(n, n, Weights) :
               Ready(DesignStructureMatrix(cat, ent, m))

NextLayered == CheckLayeredArchitecture

SpecLayered == InitLayered /\ [][NextLayered]_vars

\* the pairs i < j of entities, neither a broker, of different top-level
\* packages, with a dependency from i to j
Violations ==
    {c \in (1..N) \X (1..N) :
        /\ c[1] < c[2]
        /\ dsm.categories[c[1]] # broker
        /\ dsm.categories[c[2]] # broker
        /\ Package(c[1]) # Package(c[2])
        /\ dsm.dependency_matrix[c[1]][c[2]] > 0}

\* C10: check_layered_architecture returns True exactly when no pair i < j of
\* non-broker entities of different top-level packages has observed(i,j) > 0;
\* a dependency from j to i never fails it, and the message has one line per
\* violating pair, naming its source and its target.
C10_LayeredIffNoForwardEdge ==
    (pc = "done" /\ op = "check_layered_architecture") =>
        /\ result.kind = "return"
        /\ (result.value[1] = True) = (Violations = {})
        /\ (result.value[1] = False) = (Violations # {})
        /\ Len(result.value[2]) = Cardinality(Violations)
        /\ {<<result.value[2][k][2], result.value[2][k][4]>> :
                k \in 1..Len(result.value[2])}
              = {<<dsm.entities[c[1]], dsm.entities[c[2]]>> : c \in Violations}

\* a dependency from a later entity to an earlier one of another package,
\* neither a broker, and the check passes
C10_Witness ==
    /\ pc = "done"
    /\ op = "check_layered_architecture"
    /\ result.value[1] = True
    /\ \E i, j \in 1..N :
         /\ i < j
         /\ dsm.categories[i] # broker
         /\ dsm.categories[j] # broker
         /\ Package(i) # Package(j)
         /\ dsm.dependency_matrix[j][i] > 0

(***************************************************************************)
(* The criteria that are not implemented, called on any matrix: of no      *)
(* entity at all, of entities of any category, empty or full.              *)
(***************************************************************************)
InitStubs ==
    \E n \in 0..MaxN :
      \E ent \in NameLists(n, EntityNames) :
        \E cat \in [1..n -> Categories \cup {OtherCategory}] :
          \E w \in Weights :
            Ready(DesignStructureMatrix(cat, ent, Constant(n, n, w)))

Stubs == {SEPARATION_OF_PRIVILEGES, LEAST_PRIVILEGES, OPEN_DESIGN, CODE_CLEAN}

\* SEPARATION_OF_PRIVILEGES(dsm), LEAST_PRIVILEGES(dsm), OPEN_DESIGN(dsm),
\* CODE_CLEAN(dsm)
CallStub ==
    \E criterion \in Stubs :
        Done(criterion.codename, NoKwargs,
             Criterion__call__(criterion, dsm, NoKwargs))

NextStubs == CallStub

SpecStubs == InitStubs /\ [][NextStubs]_vars

StubCodenames == {criterion.codename : criterion \in Stubs}

\* C11: SEPARATION_OF_PRIVILEGES, LEAST_PRIVILEGES, OPEN_DESIGN and CODE_CLEAN
\* return (NOT_IMPLEMENTED, '') for every matrix, also one of no or of one
\* entity and one with unknown categories; never PASSED or FAILED, no raise.
C11_StubsNotImplemented ==
    (pc = "done" /\ op \in StubCodenames) =>
        /\ result.kind = "return"
        /\ result.value = <<NOT_IMPLEMENTED, <<>>>>

\* a stub was called on the matrix of no entity
C11_Witness ==
    /\ pc = "done"
    /\ op = "OPEN_DESIGN"
    /\ N = 0
    /\ result.kind = "return"
    /\ result.value[1] = NOT_IMPLEMENTED

(***************************************************************************)
(* The registered criteria called on a well-formed matrix: every choice of *)
(* names and of the six categories over a full matrix, and every matrix    *)
(* of frameworks, app_modules and brokers over fixed names.                *)
(***************************************************************************)
InitCriteria ==
    \E n \in 1..MaxN :
      \/ \E ent \in NameLists(n, EntityNames) :
           \E cat \in [1..n -> Categories] :
             Ready(DesignStructureMatrix(cat, ent, Constant(n, n, 1)))
      \/ \E cat \in [1..n -> {framework, app_module, broker}] :
           \E m \in Matrices(n, n, Weights) :
             Ready(DesignStructureMatrix(cat, FirstNames(n), m))

\* the keyword arguments a check function accepts beside the matrix: none,
\* or its factor
AcceptedKwargs(check) ==
    {NoKwargs} \cup
    (IF check = "check_economy_of_mechanism"
     THEN {[k \in {"simplicity_factor"} |-> f] : f \in Factors}
     ELSE IF check = "check_least_common_mechanism"
     THEN {[k \in {"independence_factor"} |-> f] : f \in Factors}
     ELSE {})

\* criterion(dsm) or criterion(dsm, factor=f), for criterion in CRITERIA
CallCriterion ==
    \E k \in 1..Len(CRITERIA) :
      \E kwargs \in AcceptedKwargs(CRITERIA[k].check) :
        Done(CRITERIA[k].codename, kwargs,
             Criterion__call__(CRITERIA[k], dsm, kwargs))

NextCriteria == CallCriterion

SpecCriteria == InitCriteria /\ [][NextCriteria]_vars

Codenames == {CRITERIA[k].codename : k \in 1..Len(CRITERIA)}

\* C12: on a matrix of N >= 1 entities of known categories, with positive
\* factors, each of the eight criteria returns a pair (result, message)
\* without raising, the result FAILED, PASSED or NOT_IMPLEMENTED, never
\* IGNORED, and the message empty whenever the result is PASSED.
C12_CriteriaReturnData ==
    (pc = "done" /\ op \in Codenames) =>
        /\ result.kind = "return"
        /\ result.value[1] \in {FAILED, PASSED, NOT_IMPLEMENTED}
        /\ result.value[1] # IGNORED
        /\ result.value[1] = PASSED => result.value[2] = <<>>

\* economy of mechanism, called with a factor, passes over a matrix that
\* holds dependencies
C12_Witness ==
    /\ pc = "done"
    /\ op = "ECONOMY_OF_MECHANISM"
    /\ DOMAIN args = {"simplicity_factor"}
    /\ \E i, j \in 1..N : dsm.dependency_matrix[i][j] > 0
    /\ result.kind = "return"
    /\ result.value = <<PASSED, <<>>>>

(***************************************************************************)
(* Complete runs of CRITERIA on one matrix, with single calls of the       *)
(* criteria before, between and after them.  A run calls every criterion   *)
(* in the order of registration on the matrix alone and collects the       *)
(* pairs by codename.  The matrices: every choice of the six categories    *)
(* over an empty and a full matrix, and every matrix of app_modules.       *)
(***************************************************************************)
InitRuns ==
    \E n \in 1..MaxN :
      \/ \E cat \in [1..n -> Categories] :
           \E w \in Weights :
             Ready(DesignStructureMatrix(cat, FirstNames(n), Constant(n, n, w)))
      \/ \E m \in Matrices(n, n, Weights) :
           Ready(DesignStructureMatrix([k \in 1..n |-> app_module],
                                       FirstNames(n), m))

CallRegistered ==
    \E k \in 1..Len(criteria) :
      \E kwargs \in AcceptedKwargs(criteria[k].check) :
        /\ pc' = "done"
        /\ op' = criteria[k].codename
        /\ args' = kwargs
        /\ result' = Criterion__call__(criteria[k], dsm, kwargs)
        /\ criteria' = [criteria EXCEPT ![k] = SelfAfterCall(criteria[k], kwargs)]
        /\ UNCHANGED <<dsm, runs>>

RunAll ==
    /\ Len(runs) < MaxRuns
    /\ runs' = Append(runs,
                  [k \in 1..Len(criteria) |->
                      <<criteria[k].codename,
                        Criterion__call__(criteria[k], dsm, NoKwargs)>>])
    /\ criteria' = [k \in 1..Len(criteria) |->
                      SelfAfterCall(criteria[k], NoKwargs)]
    /\ UNCHANGED <<dsm, pc, op, args, result>>

NextRuns ==
    \/ CallRegistered
    \/ RunAll

SpecRuns == InitRuns /\ [][NextRuns]_vars

\* C13: complete runs of the criteria on the same matrix yield identical
\* (result, message) pairs for every codename, whatever calls were made
\* before and between them; a call changes neither the Criterion objects
\* nor the matrix.
C13_RunsRepeat == \A a, b \in 1..Len(runs) : runs[a] = runs[b]

\* two runs, in which economy of mechanism fails, and a single call of it
\* with a factor under which it passes
C13_Witness ==
    /\ Len(runs) >= 2
    /\ op = "ECONOMY_OF_MECHANISM"
    /\ DOMAIN args = {"simplicity_factor"}
    /\ result.value[1] = PASSED
    /\ runs[2][2][1] = "ECONOMY_OF_MECHANISM"
    /\ runs[2][2][2].value[1] = FAILED

(***************************************************************************)
(* Criteria with keyword arguments bound by the constructor, called with   *)
(* a factor: every choice of the six categories and every matrix, over     *)
(* fixed names.                                                            *)
(***************************************************************************)
InitInjection ==
    \E n \in 1..MaxN :
      \E cat \in [1..n -> Categories] :
        \E m \in Matrices(n, n, Weights) :
          Ready(DesignStructureMatrix(cat, FirstNames(n), m))

FactorChecks == {"check_economy_of_mechanism", "check_least_common_mechanism"}

\* Criterion(codename, title, check=check, **bound)(dsm, **kwargs)
CallBound ==
    \E check \in FactorChecks :
      \E bound \in AcceptedKwargs(check) :
        \E kwargs \in AcceptedKwargs(check) \ {NoKwargs} :
          Done(check, [bound |-> bound, kwargs |-> kwargs],
               Criterion__call__(Criterion("CUSTOM", check, bound), dsm, kwargs))

NextInjection == CallBound

SpecInjection == InitInjection /\ [][NextInjection]_vars

\* C14: a Criterion wrapping check_economy_of_mechanism (resp.
\* check_least_common_mechanism) and called with simplicity_factor = k (resp.
\* independence_factor = k) computes its threshold from k, whether or not
\* the constructor bound a value to the same keyword.
C14_FactorOfTheCall ==
    (pc = "done" /\ op \in FactorChecks) =>
        result =
            IF op = "check_economy_of_mechanism"
            THEN ResultOf(check_economy_of_mechanism(
                              dsm, args.kwargs["simplicity_factor"]))
            ELSE ResultOf(check_least_common_mechanism(
                              dsm, args.kwargs["independence_factor"]))

(***************************************************************************)
(* The message of a failed least common mechanism check (specification     *)
(* SpecLeastCommon).                                                       *)
(***************************************************************************)
\* the in-degree of entity j after the exemptions
Adjusted(j) == IF j \in Counted THEN InDegree(j) ELSE 0

Highest == {j \in 1..N : \A l \in 1..N : Adjusted(l) <= Adjusted(j)}

\* C15: when check_least_common_mechanism fails, its message names the
\* lowest-indexed entity whose in-degree after the exemptions is the
\* maximum, reports that maximum, and the entity named is no framework,
\* broker or app_lib.
C15_FailureNamesFirstMaximum ==
    (/\ pc = "done"
     /\ op = "check_least_common_mechanism"
     /\ result.value[1] = False)
    => LET line == result.value[2][1]
           first == CHOOSE j \in Highest : \A l \in Highest : j <= l
       IN  /\ Len(result.value[2]) = 1
           /\ line[2] = dsm.entities[first]
           /\ line[3] = Adjusted(first)
           /\ dsm.categories[first] \notin {framework, broker, app_lib}

\* a failure where two entities share the maximum
C15_Witness ==
    /\ pc = "done"
    /\ op = "check_least_common_mechanism"
    /\ result.value[1] = False
    /\ Cardinality(Highest) >= 2
    /\ result.value[2][1][2] = dsm.entities[CHOOSE j \in Highest :
                                               \A l \in Highest : j <= l]

(***************************************************************************)
(* The Archan class (archan/checker.py): the older implementation of       *)
(* complete mediation.  Its rows for framework, app_lib, app_module and    *)
(* data entities have the conditions of FrameworkRow, AppLibRow,           *)
(* AppModuleRow and DataRow.                                               *)
(***************************************************************************)
\* elif cat[i] == DesignStructureMatrix.core_lib
Archan_CoreLibRow(cat, ent, packages, i, j) ==
    IF \/ cat[j] = framework
       \/ InPackage(ent, packages, i, j)
       \/ i = j
    THEN -1 ELSE 0

\* elif cat[i] == DesignStructureMatrix.broker
Archan_BrokerRow(cat, ent, packages, i, j) ==
    IF \/ cat[j] = app_module
       \/ cat[j] = framework
       \/ InPackage(ent, packages, i, j)
       \/ i = j
    THEN -1 ELSE 0

Archan_MediationValue(cat, ent, packages, i, j) ==
    IF cat[i] = framework THEN FrameworkRow(cat, i, j)
    ELSE IF cat[i] = core_lib THEN Archan_CoreLibRow(cat, ent, packages, i, j)
    ELSE IF cat[i] = app_lib THEN AppLibRow(cat, ent, packages, i, j)
    ELSE IF cat[i] = app_module THEN AppModuleRow(cat, ent, packages, i, j)
    ELSE IF cat[i] = broker THEN Archan_BrokerRow(cat, ent, packages, i, j)
    ELSE IF cat[i] = data THEN DataRow(cat, i, j)
    ELSE NotGenerated

\* Archan._generate_mediation_matrix
Archan_generate_mediation_matrix(d) ==
    LET cat == d.categories
        ent == d.entities
        size == d.size
        packages == Packages(ent)
        value == [i \in 1..size |-> [j \in 1..size |->
                    Archan_MediationValue(cat, ent, packages, i, j)]]
    IN  GenerateOutcome(size, value)

Archan_Discrepancy(expected, observed) ==
    expected # -1 /\ observed # expected

\* Archan._check_matrices_compliance: dep_matrix_ok
Archan_check_matrices_compliance(d, complete_mediation_matrix) ==
    LET matrix == d.dependency_matrix
        med == complete_mediation_matrix
    IN  IF Len(matrix) = 0 \/ Len(med) = 0
        THEN Raise("IndexError", <<"list index out of range">>)
        ELSE IF Len(matrix) = Len(med) /\ Len(matrix[1]) = Len(med[1])
        THEN Return(Bool(\A i \in 1..Len(matrix) : \A j \in 1..Len(matrix[1]) :
                            ~Archan_Discrepancy(med[i][j], matrix[i][j])))
        ELSE Return(False)

\* Archan.check_complete_mediation
Archan_check_complete_mediation(d) ==
    LET med_matrix == Archan_generate_mediation_matrix(d)
    IN  IF med_matrix.kind = "raise" THEN med_matrix
        ELSE Archan_check_matrices_compliance(d, med_matrix.value)

ArchanGenerateMediationMatrix ==
    Done("Archan._generate_mediation_matrix", NoKwargs,
         Archan_generate_mediation_matrix(dsm))

ArchanCheckCompleteMediation ==
    Done("Archan.check_complete_mediation", NoKwargs,
         Archan_check_complete_mediation(dsm))

(***************************************************************************)
(* Both implementations on the matrices of InitCompliance.                 *)
(***************************************************************************)
NextArchan ==
    \/ ArchanGenerateMediationMatrix
    \/ ArchanCheckCompleteMediation

SpecArchan == InitCompliance /\ [][NextArchan]_vars

\* C16: on a well-formed matrix Archan.check_complete_mediation returns the
\* boolean that criterion.check_complete_mediation returns first, and both
\* generators produce the same mediation matrix.
C16_ImplementationsAgree ==
    /\ (pc = "done" /\ op = "Archan.check_complete_mediation") =>
          /\ result.kind = "return"
          /\ result.value = check_complete_mediation(dsm).value[1]
    /\ (pc = "done" /\ op = "Archan._generate_mediation_matrix") =>
          result = _generate_mediation_matrix(dsm)

====
